---- MODULE Spec2Model ----
(***************************************************************************)
(* Model of the signal-detection core of hype_bot:                         *)
(*   services/setup_finder.py  SetupFinder (indicators + setup classifier) *)
(*   services/indicators.py    IndicatorEngine.calculate_zigzag            *)
(*                                                                         *)
(* Prices and volumes are integers.  The indicator values the code         *)
(* computes in float64 (EMA, RSI, VWAP, stop-loss, take-profit) are        *)
(* modelled as exact non-negative rationals <<num, den>> in lowest terms;  *)
(* <<0, 0>> stands for NaN (every comparison with it is FALSE, as in       *)
(* IEEE-754).                                                              *)
(***************************************************************************)
EXTENDS Integers, Sequences, FiniteSets, TLC

VARIABLES df, ret, fetches, calls,
          closes, deviation_percent, zz_pc, i, trend,
          last_pivot_price, last_pivot_idx, pivots,
          scan_pc, symbol_idx, BROADCAST_CHAT_IDS, journal

vars == <<df, ret, fetches, calls, closes, deviation_percent, zz_pc, i, trend,
          last_pivot_price, last_pivot_idx, pivots,
          scan_pc, symbol_idx, BROADCAST_CHAT_IDS, journal>>

sfvars == <<df, ret, fetches, calls>>

zzvars == <<closes, deviation_percent, zz_pc, i, trend,
            last_pivot_price, last_pivot_idx, pivots>>

scanvars == <<scan_pc, symbol_idx, BROADCAST_CHAT_IDS, journal>>

----------------------------------------------------------------------------
(* Exact rational arithmetic standing in for float64.                      *)

RECURSIVE GCD(_, _)
GCD(a, b) ==
    IF b = 0 THEN a ELSE GCD(b, a % b)

NaN ==
    <<0, 0>>

Frac(n, d) ==
    IF d = 0 THEN NaN
    ELSE LET g == GCD(n, d) IN <<n \div g, d \div g>>

IsNaN(a) ==
    a[2] = 0

\* a < b for non-negative rationals, by continued-fraction comparison
\* (no cross multiplication, so no 32-bit overflow).
RECURSIVE LessPos(_, _)
LessPos(a, b) ==
    LET qa == a[1] \div a[2]
        qb == b[1] \div b[2]
        ra == a[1] % a[2]
        rb == b[1] % b[2]
    IN  IF qa # qb THEN qa < qb
        ELSE IF rb = 0 THEN FALSE
        ELSE IF ra = 0 THEN TRUE
        ELSE LessPos(<<b[2], rb>>, <<a[2], ra>>)

FLT(a, b) ==
    ~IsNaN(a) /\ ~IsNaN(b) /\ LessPos(a, b)

FGT(a, b) ==
    FLT(b, a)

FLE(a, b) ==
    ~IsNaN(a) /\ ~IsNaN(b) /\ ~LessPos(b, a)

FGE(a, b) ==
    FLE(b, a)

Int2F(n) ==
    <<n, 1>>

\* a * (p / q)
FScale(a, p, q) ==
    IF IsNaN(a) THEN NaN ELSE Frac(a[1] * p, a[2] * q)

\* |n - a| for an integer n
FAbsDiffInt(n, a) ==
    IF IsNaN(a) THEN NaN
    ELSE LET x == n * a[2] - a[1]
         IN  Frac(IF x < 0 THEN -x ELSE x, a[2])

\* n + a for an integer n
FAddInt(n, a) ==
    IF IsNaN(a) THEN NaN ELSE Frac(n * a[2] + a[1], a[2])

Abs(x) ==
    IF x < 0 THEN -x ELSE x

----------------------------------------------------------------------------
(* Candle series: services/market_data.py get_candles                      *)

\* Closed history in the model: HistoryLens candles of the flat test series.
HistoryLens ==
    {26}

\* Number of further candles a run fetches after that history.
MaxFetches ==
    4

\* timestamp (ms) of the first candle of every series
FirstOpenMs ==
    78300000

IntervalMs ==
    5 * 60 * 1000

DayMs ==
    24 * 3600 * 1000

OHLCV(o, h, l, c, v) ==
    [open |-> o, high |-> h, low |-> l, close |-> c, volume |-> v]

\* the candle of tests/test_setup_finder.py setUp
FlatCandle ==
    OHLCV(100, 101, 99, 100, 1000)

\* OHLCV values a fetched candle may carry
Candles ==
    { FlatCandle,
      OHLCV(100, 100,  97,  97, 1300),
      OHLCV( 92,  95,  92,  95, 1200),
      OHLCV(106, 106, 100, 104, 1000),
      OHLCV(101, 104, 100, 104, 1300) }

\* pd.to_datetime(timestamp, unit='ms'): <<UTC day number, ms within the day>>
to_datetime(ts) ==
    <<ts \div DayMs, ts % DayMs>>

\* one row of the DataFrame get_candles returns
Row(ts, c) ==
    [timestamp |-> ts, open |-> c.open, high |-> c.high, low |-> c.low,
     close |-> c.close, volume |-> c.volume, datetime |-> to_datetime(ts)]

History(n) ==
    [k \in 1..n |-> Row(FirstOpenMs + (k - 1) * IntervalMs, FlatCandle)]

----------------------------------------------------------------------------
(* SetupFinder.calculate_indicators                                        *)

rsi_period ==
    9

ema_fast ==
    9

ema_slow ==
    21

\* mutant of ewm_mean: Wilder's smoothing, a = 1/span
RECURSIVE ewm_mean_wilder(_, _, _, _)
ewm_mean_wilder(x, span, k, acc) ==
    IF k > Len(x) THEN acc
    ELSE ewm_mean_wilder(x, span, k + 1,
            Append(acc,
                   IF k = 1 THEN Int2F(x[1].close)
                   ELSE Frac(x[k].close * acc[k-1][2] + (span - 1) * acc[k-1][1],
                             span * acc[k-1][2])))

\* Series.ewm(span, adjust=False).mean(): y[1] = x[1],
\* y[k] = a*x[k] + (1-a)*y[k-1] with a = 2/(span+1); acc holds y[1..k-1].
RECURSIVE ewm_mean(_, _, _, _)
ewm_mean(x, span, k, acc) ==
    IF k > Len(x) THEN acc
    ELSE ewm_mean(x, span, k + 1,
            Append(acc,
                   IF k = 1 THEN Int2F(x[1].close)
                   ELSE Frac(2 * x[k].close * acc[k-1][2] + (span - 1) * acc[k-1][1],
                             (span + 1) * acc[k-1][2])))

\* delta = close.diff(); delta.where(delta > 0, 0): the NaN of row 1 becomes 0
gain_of(x, k) ==
    IF k > 1 /\ x[k].close - x[k-1].close > 0 THEN x[k].close - x[k-1].close ELSE 0

\* -delta.where(delta < 0, 0)
loss_of(x, k) ==
    IF k > 1 /\ x[k].close - x[k-1].close < 0 THEN x[k-1].close - x[k].close ELSE 0

RECURSIVE window_sum(_, _, _, _)
window_sum(x, k, w, isGain) ==
    IF w = 0 THEN 0
    ELSE (IF isGain THEN gain_of(x, k) ELSE loss_of(x, k))
         + window_sum(x, k - 1, w - 1, isGain)

\* mutant of rsi_at: the NaN of 0/0 is not filled
rsi_at_no_fillna(x, period, k) ==
    IF k < period THEN Int2F(50)
    ELSE LET g == window_sum(x, k, period, TRUE)
             l == window_sum(x, k, period, FALSE)
         IN  IF l = 0
             THEN (IF g = 0 THEN NaN ELSE Int2F(100))
             ELSE Frac(100 * g, g + l)

\* mutant of rsi_at: a division by a zero average loss gives NaN, filled with 50
rsi_at_div0_nan(x, period, k) ==
    IF k < period THEN Int2F(50)
    ELSE LET g == window_sum(x, k, period, TRUE)
             l == window_sum(x, k, period, FALSE)
         IN  IF l = 0
             THEN Int2F(50)
             ELSE Frac(100 * g, g + l)

\* rolling(window=period).mean() is NaN on rows 1..period-1; rs = gain/loss;
\* rsi = 100 - 100/(1 + rs); fillna(50).
rsi_at(x, period, k) ==
    IF k < period THEN Int2F(50)
    ELSE LET g == window_sum(x, k, period, TRUE)
             l == window_sum(x, k, period, FALSE)
         IN  IF l = 0
             THEN (IF g = 0 THEN Int2F(50)     \* 0/0 = NaN, filled with 50
                   ELSE Int2F(100))            \* g/0 = inf, 100 - 100/inf
             ELSE Frac(100 * g, g + l)

\* cumsum of (high + low + close) * volume = 3 * cum_pv; acc holds rows 1..k-1
RECURSIVE cum_pv3(_, _, _)
cum_pv3(x, k, acc) ==
    IF k > Len(x) THEN acc
    ELSE cum_pv3(x, k + 1,
            Append(acc, (IF k = 1 THEN 0 ELSE acc[k-1])
                        + (x[k].high + x[k].low + x[k].close) * x[k].volume))

RECURSIVE cum_vol(_, _, _)
cum_vol(x, k, acc) ==
    IF k > Len(x) THEN acc
    ELSE cum_vol(x, k + 1,
            Append(acc, (IF k = 1 THEN 0 ELSE acc[k-1]) + x[k].volume))

\* IndicatorEngine.calculate_rsi(df) with its default period, row k
period_default ==
    14

calculate_rsi(x, k) ==
    rsi_at(x, period_default, k)

calculate_indicators(x) ==
    LET e9  == ewm_mean(x, ema_fast, 1, <<>>)
        e21 == ewm_mean(x, ema_slow, 1, <<>>)
        pv3 == cum_pv3(x, 1, <<>>)
        vol == cum_vol(x, 1, <<>>)
    IN  [k \in 1..Len(x) |->
            [timestamp |-> x[k].timestamp, datetime |-> x[k].datetime,
             open |-> x[k].open, high |-> x[k].high, low |-> x[k].low,
             close |-> x[k].close, volume |-> x[k].volume,
             ema9 |-> e9[k], ema21 |-> e21[k],
             rsi |-> rsi_at(x, rsi_period, k),
             vwap |-> Frac(pv3[k], 3 * vol[k])]]

----------------------------------------------------------------------------
(* SetupFinder: the three rule families and find_setup                     *)

NoSignal ==
    "None"

\* the test `"LONG" in sig`
IsLong(sig) ==
    sig \in {"LONG (Breakout)", "LONG (Pullback)", "LONG (Reversion)"}

\* mutant of check_setup_1_pullback: every comparison of the Long branch
\* taken inclusively
check_setup_1_pullback_inclusive(row, prev_row, prev2_row) ==
    LET trend_up   == FGE(Int2F(row.close), row.vwap) /\ FGE(row.ema9, row.ema21)
        is_green   == row.close >= row.open
        is_bounce  == is_green /\ FLE(Int2F(row.low), FScale(row.ema21, 1002, 1000))
        rsi_ok     == FLE(Int2F(45), row.rsi) /\ FLE(row.rsi, Int2F(65))
        trend_down == FLT(Int2F(row.close), row.vwap) /\ FLT(row.ema9, row.ema21)
        is_red     == row.close < row.open
        is_bounce_down == is_red /\ FGE(Int2F(row.high), FScale(row.ema21, 998, 1000))
        rsi_ok_short   == FLE(Int2F(35), row.rsi) /\ FLE(row.rsi, Int2F(55))
    IN  IF trend_up /\ is_bounce /\ rsi_ok THEN "LONG (Pullback)"
        ELSE IF trend_down /\ is_bounce_down /\ rsi_ok_short THEN "SHORT (Pullback)"
        ELSE NoSignal

check_setup_1_pullback(row, prev_row, prev2_row) ==
    LET trend_up   == FGT(Int2F(row.close), row.vwap) /\ FGT(row.ema9, row.ema21)
        is_green   == row.close > row.open
        is_bounce  == is_green /\ FLE(Int2F(row.low), FScale(row.ema21, 1002, 1000))
        rsi_ok     == FLE(Int2F(45), row.rsi) /\ FLE(row.rsi, Int2F(65))
        trend_down == FLT(Int2F(row.close), row.vwap) /\ FLT(row.ema9, row.ema21)
        is_red     == row.close < row.open
        is_bounce_down == is_red /\ FGE(Int2F(row.high), FScale(row.ema21, 998, 1000))
        rsi_ok_short   == FLE(Int2F(35), row.rsi) /\ FLE(row.rsi, Int2F(55))
    IN  IF trend_up /\ is_bounce /\ rsi_ok THEN "LONG (Pullback)"
        ELSE IF trend_down /\ is_bounce_down /\ rsi_ok_short THEN "SHORT (Pullback)"
        ELSE NoSignal

\* volume > prev volume * 1.2 and body > prev body * 1.5, on integers
vol_surge(row, prev_row) ==
    10 * row.volume > 12 * prev_row.volume

\* mutant of big_candle: the 1.5 x body threshold taken inclusively
big_candle_inclusive(row, prev_row) ==
    2 * Abs(row.close - row.open) >= 3 * Abs(prev_row.close - prev_row.open)

big_candle(row, prev_row) ==
    2 * Abs(row.close - row.open) > 3 * Abs(prev_row.close - prev_row.open)

check_setup_2_breakout(row, prev_row, prev2_row) ==
    IF /\ FGT(Int2F(row.close), row.vwap)
       /\ FGT(row.rsi, Int2F(60))
       /\ vol_surge(row, prev_row)
       /\ big_candle(row, prev_row)
       /\ row.close > row.open
    THEN "LONG (Breakout)"
    ELSE IF /\ FLT(Int2F(row.close), row.vwap)
            /\ FLT(row.rsi, Int2F(40))
            /\ vol_surge(row, prev_row)
            /\ big_candle(row, prev_row)
            /\ row.close < row.open
    THEN "SHORT (Breakout)"
    ELSE NoSignal

\* (vwap - close) / vwap > 0.02  <=>  close < 0.98 * vwap   (vwap > 0)
is_far_below(row) ==
    FLT(Int2F(row.close), FScale(row.vwap, 98, 100))

\* (close - vwap) / vwap > 0.02  <=>  close > 1.02 * vwap   (vwap > 0)
is_far_above(row) ==
    FGT(Int2F(row.close), FScale(row.vwap, 102, 100))

\* mutant of check_setup_3_reversion: the colour of the candle is not asked for
check_setup_3_reversion_any_colour(row, prev_row) ==
    IF is_far_below(row) /\ FLT(row.rsi, Int2F(30))
    THEN "LONG (Reversion)"
    ELSE IF is_far_above(row) /\ FGT(row.rsi, Int2F(70))
    THEN "SHORT (Reversion)"
    ELSE NoSignal

check_setup_3_reversion(row, prev_row) ==
    IF is_far_below(row) /\ FLT(row.rsi, Int2F(30)) /\ row.close > row.open
    THEN "LONG (Reversion)"
    ELSE IF is_far_above(row) /\ FGT(row.rsi, Int2F(70)) /\ row.close < row.open
    THEN "SHORT (Reversion)"
    ELSE NoSignal

\* Python values find_setup can return: None, or a dict with six keys.
\* nitems is the number of items iterating the value yields (-1: not iterable).
PyNone ==
    [pytype |-> "NoneType", nitems |-> -1, setup |-> "None", signal_type |-> NoSignal,
     price |-> NaN, time |-> <<0, 0>>, stop_loss |-> NaN, take_profit |-> NaN]

\* the local `setup` of scan_market before find_setup has returned
Unbound ==
    [pytype |-> "unbound", nitems |-> -1, setup |-> "None", signal_type |-> NoSignal,
     price |-> NaN, time |-> <<0, 0>>, stop_loss |-> NaN, take_profit |-> NaN]

PyDict(setup, sig, price, time, sl, tp) ==
    [pytype |-> "dict", nitems |-> 6, setup |-> setup, signal_type |-> sig,
     price |-> price, time |-> time, stop_loss |-> sl, take_profit |-> tp]

\* mutant of breakout_signal: the offsets of Long and Short exchanged
breakout_signal_swapped(last_closed, sig) ==
    PyDict("Breakout", sig, Int2F(last_closed.close), last_closed.datetime,
           IF IsLong(sig) THEN Frac(last_closed.close * 1005, 1000)
                          ELSE Frac(last_closed.close * 995, 1000),
           IF IsLong(sig) THEN Frac(last_closed.close * 985, 1000)
                          ELSE Frac(last_closed.close * 1015, 1000))

\* lines 189-196: the Breakout dict
breakout_signal(last_closed, sig) ==
    PyDict("Breakout", sig, Int2F(last_closed.close), last_closed.datetime,
           IF IsLong(sig) THEN Frac(last_closed.close * 995, 1000)
                          ELSE Frac(last_closed.close * 1005, 1000),
           IF IsLong(sig) THEN Frac(last_closed.close * 1015, 1000)
                          ELSE Frac(last_closed.close * 985, 1000))

\* lines 201-208: the Pullback dict
pullback_signal(last_closed, sig) ==
    PyDict("Pullback", sig, Int2F(last_closed.close), last_closed.datetime,
           last_closed.ema21,
           FAddInt(last_closed.close,
                   FScale(FAbsDiffInt(last_closed.close, last_closed.ema21), 2, 1)))

\* mutant of reversion_signal: the stop-loss extremes of Long and Short swapped
reversion_signal_swapped(last_closed, sig) ==
    PyDict("Reversion", sig, Int2F(last_closed.close), last_closed.datetime,
           IF IsLong(sig) THEN Int2F(last_closed.high)
                          ELSE Int2F(last_closed.low),
           last_closed.vwap)

\* lines 213-220: the Reversion dict
reversion_signal(last_closed, sig) ==
    PyDict("Reversion", sig, Int2F(last_closed.close), last_closed.datetime,
           IF IsLong(sig) THEN Int2F(last_closed.low)
                          ELSE Int2F(last_closed.high),
           last_closed.vwap)

\* mutant of check_setups: Pullback tried before Breakout
check_setups_pullback_first(last_closed, prev_closed, prev2_closed) ==
    LET sig2 == check_setup_2_breakout(last_closed, prev_closed, prev2_closed)
        sig1 == check_setup_1_pullback(last_closed, prev_closed, prev2_closed)
        sig3 == check_setup_3_reversion(last_closed, prev_closed)
    IN  IF sig1 # NoSignal THEN pullback_signal(last_closed, sig1)
        ELSE IF sig2 # NoSignal THEN breakout_signal(last_closed, sig2)
        ELSE IF sig3 # NoSignal THEN reversion_signal(last_closed, sig3)
        ELSE PyNone

\* lines 184-222: the setups in priority order, first match returns
check_setups(last_closed, prev_closed, prev2_closed) ==
    LET sig2 == check_setup_2_breakout(last_closed, prev_closed, prev2_closed)
        sig1 == check_setup_1_pullback(last_closed, prev_closed, prev2_closed)
        sig3 == check_setup_3_reversion(last_closed, prev_closed)
    IN  IF sig2 # NoSignal THEN breakout_signal(last_closed, sig2)
        ELSE IF sig1 # NoSignal THEN pullback_signal(last_closed, sig1)
        ELSE IF sig3 # NoSignal THEN reversion_signal(last_closed, sig3)
        ELSE PyNone

\* mutant of MinCandles: one candle fewer is enough
MinCandles_one_less ==
    30 - 1

\* minimum number of candles find_setup asks for
MinCandles ==
    30

\* mutant of find_setup: the forming candle iloc[-1] taken as the signal candle
find_setup_on_forming(x) ==
    IF Len(x) = 0 \/ Len(x) < MinCandles THEN PyNone
    ELSE LET ind == calculate_indicators(x)
         IN  check_setups(ind[Len(x)], ind[Len(x) - 1], ind[Len(x) - 2])

find_setup(x) ==
    IF Len(x) = 0 \/ Len(x) < MinCandles THEN PyNone
    ELSE LET ind          == calculate_indicators(x)
             last_closed  == ind[Len(x) - 1]
             prev_closed  == ind[Len(x) - 2]
             prev2_closed == ind[Len(x) - 3]
         IN  check_setups(last_closed, prev_closed, prev2_closed)

\* mutant of df_after_find_setup: the indicator columns written to the
\* caller's frame (no df.copy())
df_after_find_setup_no_copy(x) ==
    IF Len(x) = 0 \/ Len(x) < MinCandles THEN x ELSE calculate_indicators(x)

\* The caller's frame after find_setup(x) has returned: calculate_indicators
\* rebinds df to df.copy() before it assigns any column (line 27) and
\* find_setup only reads, so the caller's object still holds x.
df_after_find_setup(x) ==
    x

----------------------------------------------------------------------------
(* The scan cycle of main.py scan_market for one symbol:                   *)
(* df = get_candles(...); setup = find_setup(df)                           *)

\* scan_market has not been started
ScanIdle ==
    /\ scan_pc = "idle"
    /\ symbol_idx = 0
    /\ BROADCAST_CHAT_IDS = {}
    /\ journal = <<>>

ZZIdle ==
    /\ closes = <<>>
    /\ deviation_percent = 1
    /\ zz_pc = "idle"
    /\ i = 0
    /\ trend = 0
    /\ last_pivot_price = 0
    /\ last_pivot_idx = 0
    /\ pivots = <<>>

Init ==
    /\ \E n \in HistoryLens : df = History(n)
    /\ ret = Unbound
    /\ fetches = 0
    /\ calls = <<>>
    /\ ZZIdle
    /\ ScanIdle

NextOpenMs ==
    FirstOpenMs + Len(df) * IntervalMs

\* the next fetch returns one more candle: the forming one has closed
GetCandlesNew(c) ==
    /\ ret.pytype # "unbound"
    /\ Len(df) > 0
    /\ fetches < MaxFetches
    /\ df' = Append(df, Row(NextOpenMs, c))
    /\ fetches' = fetches + 1
    /\ ret' = Unbound
    /\ UNCHANGED <<calls, zzvars, scanvars>>

\* the next fetch returns the same candles, the forming one with new values
GetCandlesForming(c) ==
    /\ ret.pytype # "unbound"
    /\ Len(df) > 0
    /\ fetches > 0
    /\ df' = [df EXCEPT ![Len(df)] = Row(df[Len(df)].timestamp, c)]
    /\ ret' = Unbound
    /\ UNCHANGED <<fetches, calls, zzvars, scanvars>>

\* the exchange has no data or the request fails: `return pd.DataFrame()`
GetCandlesEmpty ==
    /\ ret.pytype # "unbound"
    /\ Len(df) > 0
    /\ df' = <<>>
    /\ ret' = Unbound
    /\ UNCHANGED <<fetches, calls, zzvars, scanvars>>

\* setup = find_setup(df): the result is bound, the caller's frame is what
\* the call leaves of it
FindSetup ==
    /\ ret.pytype = "unbound"
    /\ ret' = find_setup(df)
    /\ df' = df_after_find_setup(df)
    /\ UNCHANGED <<fetches, calls, zzvars, scanvars>>

Next ==
    \/ \E c \in Candles : GetCandlesNew(c)
    \/ \E c \in Candles : GetCandlesForming(c)
    \/ GetCandlesEmpty
    \/ FindSetup

Spec ==
    Init /\ [][Next]_vars

----------------------------------------------------------------------------
(* IndicatorEngine.calculate_zigzag, one loop iteration per step           *)

\* longest close series handed to calculate_zigzag
MaxCloses ==
    5

\* closes in 1/1000 of a price unit: 100, 99, 101, 105, 105 - 3%, that + 4%
ZZPrices ==
    {100000, 99000, 101000, 105000, 101850, 105924}

Deviations ==
    {1, 5}

RECURSIVE SeqsUpTo(_, _)
SeqsUpTo(S, n) ==
    IF n = 0 THEN {<<>>}
    ELSE LET shorter == SeqsUpTo(S, n - 1)
         IN  shorter \cup {Append(q, e) : q \in {r \in shorter : Len(r) = n - 1}, e \in S}

\* df['timestamp'].values[idx] of the series the closes come from
timestamp_at(idx) ==
    FirstOpenMs + idx * IntervalMs

Pivot(idx, price, type) ==
    [index |-> idx, price |-> price, type |-> type, time |-> timestamp_at(idx)]

\* change = (price - last_pivot_price) / last_pivot_price * 100, compared
\* with the deviation on integers (last_pivot_price > 0)
change_ge(price, last, dev) ==
    (price - last) * 100 >= dev * last

change_le_neg(price, last, dev) ==
    (price - last) * 100 <= -(dev * last)

\* mutant of zz_body: the trend is not flipped when a peak is recorded
zz_body_no_flip(st, idx, price, dev) ==
    IF st.trend = 0
    THEN IF change_ge(price, st.last_pivot_price, dev)
         THEN [st EXCEPT !.trend = 1, !.last_pivot_price = price, !.last_pivot_idx = idx]
         ELSE IF change_le_neg(price, st.last_pivot_price, dev)
         THEN [st EXCEPT !.trend = -1, !.last_pivot_price = price, !.last_pivot_idx = idx]
         ELSE st
    ELSE IF st.trend = 1
    THEN IF price > st.last_pivot_price
         THEN [st EXCEPT !.last_pivot_price = price, !.last_pivot_idx = idx]
         ELSE IF change_le_neg(price, st.last_pivot_price, dev)
         THEN [st EXCEPT !.pivots = Append(@, Pivot(st.last_pivot_idx, st.last_pivot_price, "peak")),
                         !.last_pivot_price = price, !.last_pivot_idx = idx]
         ELSE st
    ELSE IF price < st.last_pivot_price
         THEN [st EXCEPT !.last_pivot_price = price, !.last_pivot_idx = idx]
         ELSE IF change_ge(price, st.last_pivot_price, dev)
         THEN [st EXCEPT !.pivots = Append(@, Pivot(st.last_pivot_idx, st.last_pivot_price, "valley")),
                         !.trend = 1, !.last_pivot_price = price, !.last_pivot_idx = idx]
         ELSE st

\* mutant of zz_body: a recorded pivot carries the current candle, not the anchor
zz_body_pivot_at_current(st, idx, price, dev) ==
    IF st.trend = 0
    THEN IF change_ge(price, st.last_pivot_price, dev)
         THEN [st EXCEPT !.trend = 1, !.last_pivot_price = price, !.last_pivot_idx = idx]
         ELSE IF change_le_neg(price, st.last_pivot_price, dev)
         THEN [st EXCEPT !.trend = -1, !.last_pivot_price = price, !.last_pivot_idx = idx]
         ELSE st
    ELSE IF st.trend = 1
    THEN IF price > st.last_pivot_price
         THEN [st EXCEPT !.last_pivot_price = price, !.last_pivot_idx = idx]
         ELSE IF change_le_neg(price, st.last_pivot_price, dev)
         THEN [st EXCEPT !.pivots = Append(@, Pivot(idx, price, "peak")),
                         !.trend = -1, !.last_pivot_price = price, !.last_pivot_idx = idx]
         ELSE st
    ELSE IF price < st.last_pivot_price
         THEN [st EXCEPT !.last_pivot_price = price, !.last_pivot_idx = idx]
         ELSE IF change_ge(price, st.last_pivot_price, dev)
         THEN [st EXCEPT !.pivots = Append(@, Pivot(idx, price, "valley")),
                         !.trend = 1, !.last_pivot_price = price, !.last_pivot_idx = idx]
         ELSE st

\* mutant of zz_body: a recorded pivot overwrites the last one of the list
\* instead of being appended to it
zz_body_overwrite(st, idx, price, dev) ==
    IF st.trend = 0
    THEN IF change_ge(price, st.last_pivot_price, dev)
         THEN [st EXCEPT !.trend = 1, !.last_pivot_price = price, !.last_pivot_idx = idx]
         ELSE IF change_le_neg(price, st.last_pivot_price, dev)
         THEN [st EXCEPT !.trend = -1, !.last_pivot_price = price, !.last_pivot_idx = idx]
         ELSE st
    ELSE IF st.trend = 1
    THEN IF price > st.last_pivot_price
         THEN [st EXCEPT !.last_pivot_price = price, !.last_pivot_idx = idx]
         ELSE IF change_le_neg(price, st.last_pivot_price, dev)
         THEN [st EXCEPT !.pivots =
                           IF Len(@) = 0
                           THEN <<Pivot(st.last_pivot_idx, st.last_pivot_price, "peak")>>
                           ELSE [@ EXCEPT ![Len(@)] =
                                    Pivot(st.last_pivot_idx, st.last_pivot_price, "peak")],
                         !.trend = -1, !.last_pivot_price = price, !.last_pivot_idx = idx]
         ELSE st
    ELSE IF price < st.last_pivot_price
         THEN [st EXCEPT !.last_pivot_price = price, !.last_pivot_idx = idx]
         ELSE IF change_ge(price, st.last_pivot_price, dev)
         THEN [st EXCEPT !.pivots =
                           IF Len(@) = 0
                           THEN <<Pivot(st.last_pivot_idx, st.last_pivot_price, "valley")>>
                           ELSE [@ EXCEPT ![Len(@)] =
                                    Pivot(st.last_pivot_idx, st.last_pivot_price, "valley")],
                         !.trend = 1, !.last_pivot_price = price, !.last_pivot_idx = idx]
         ELSE st

\* lines 54-99: the body of `for i in range(1, len(closes))` on the loop
\* state st = [trend, last_pivot_price, last_pivot_idx, pivots]
zz_body(st, idx, price, dev) ==
    IF st.trend = 0
    THEN IF change_ge(price, st.last_pivot_price, dev)
         THEN [st EXCEPT !.trend = 1, !.last_pivot_price = price, !.last_pivot_idx = idx]
         ELSE IF change_le_neg(price, st.last_pivot_price, dev)
         THEN [st EXCEPT !.trend = -1, !.last_pivot_price = price, !.last_pivot_idx = idx]
         ELSE st
    ELSE IF st.trend = 1
    THEN IF price > st.last_pivot_price
         THEN [st EXCEPT !.last_pivot_price = price, !.last_pivot_idx = idx]
         ELSE IF change_le_neg(price, st.last_pivot_price, dev)
         THEN [st EXCEPT !.pivots = Append(@, Pivot(st.last_pivot_idx, st.last_pivot_price, "peak")),
                         !.trend = -1, !.last_pivot_price = price, !.last_pivot_idx = idx]
         ELSE st
    ELSE IF price < st.last_pivot_price
         THEN [st EXCEPT !.last_pivot_price = price, !.last_pivot_idx = idx]
         ELSE IF change_ge(price, st.last_pivot_price, dev)
         THEN [st EXCEPT !.pivots = Append(@, Pivot(st.last_pivot_idx, st.last_pivot_price, "valley")),
                         !.trend = 1, !.last_pivot_price = price, !.last_pivot_idx = idx]
         ELSE st

\* lines 53-99: the loop from 0-based index idx to the end of cs
RECURSIVE zz_loop(_, _, _, _)
zz_loop(cs, dev, idx, st) ==
    IF idx >= Len(cs) THEN st
    ELSE zz_loop(cs, dev, idx + 1, zz_body(st, idx, cs[idx + 1], dev))

\* calculate_zigzag as a function of a non-empty close series: lines 47-51,
\* the loop, and the final pivot of lines 101-109
calculate_zigzag(cs, dev) ==
    LET st == zz_loop(cs, dev, 1,
                      [trend |-> 0, last_pivot_price |-> cs[1],
                       last_pivot_idx |-> 0, pivots |-> <<>>])
    IN  Append(st.pivots,
               Pivot(st.last_pivot_idx, st.last_pivot_price,
                     IF st.trend = 1 THEN "peak" ELSE "valley"))

SFIdle ==
    /\ df = <<>>
    /\ ret = Unbound
    /\ fetches = 0
    /\ calls = <<>>
    /\ ScanIdle

\* a call calculate_zigzag(df, deviation_percent) about to start
ZZInit ==
    /\ SFIdle
    /\ closes \in SeqsUpTo(ZZPrices, MaxCloses)
    /\ deviation_percent \in Deviations
    /\ zz_pc = "call"
    /\ i = 0
    /\ trend = 0
    /\ last_pivot_price = 0
    /\ last_pivot_idx = 0
    /\ pivots = <<>>

\* lines 44-51; closes[0] of an empty series raises IndexError
ZZEnter ==
    /\ zz_pc = "call"
    /\ IF Len(closes) = 0
       THEN /\ zz_pc' = "IndexError"
            /\ UNCHANGED <<i, trend, last_pivot_price, last_pivot_idx, pivots>>
       ELSE /\ zz_pc' = "loop"
            /\ pivots' = <<>>
            /\ last_pivot_price' = closes[1]
            /\ last_pivot_idx' = 0
            /\ trend' = 0
            /\ i' = 1
    /\ UNCHANGED <<closes, deviation_percent, sfvars, scanvars>>

\* one iteration of the loop, i being the 0-based index of the candle read
ZZIterate ==
    /\ zz_pc = "loop"
    /\ i < Len(closes)
    /\ LET st == zz_body([trend |-> trend, last_pivot_price |-> last_pivot_price,
                          last_pivot_idx |-> last_pivot_idx, pivots |-> pivots],
                         i, closes[i + 1], deviation_percent)
       IN  /\ trend' = st.trend
           /\ last_pivot_price' = st.last_pivot_price
           /\ last_pivot_idx' = st.last_pivot_idx
           /\ pivots' = st.pivots
    /\ i' = i + 1
    /\ UNCHANGED <<zz_pc, closes, deviation_percent, sfvars, scanvars>>

\* mutant of ZZReturn: no final pivot while the trend is undefined
ZZReturn_only_with_trend ==
    /\ zz_pc = "loop"
    /\ i = Len(closes)
    /\ pivots' = IF trend = 0 THEN pivots
                 ELSE Append(pivots, Pivot(last_pivot_idx, last_pivot_price,
                                           IF trend = 1 THEN "peak" ELSE "valley"))
    /\ zz_pc' = "done"
    /\ UNCHANGED <<i, trend, last_pivot_price, last_pivot_idx, closes,
                   deviation_percent, sfvars, scanvars>>

\* lines 101-109: the last known anchor is appended as a potential pivot
ZZReturn ==
    /\ zz_pc = "loop"
    /\ i = Len(closes)
    /\ pivots' = Append(pivots, Pivot(last_pivot_idx, last_pivot_price,
                                      IF trend = 1 THEN "peak" ELSE "valley"))
    /\ zz_pc' = "done"
    /\ UNCHANGED <<i, trend, last_pivot_price, last_pivot_idx, closes,
                   deviation_percent, sfvars, scanvars>>

ZZNext ==
    \/ ZZEnter
    \/ ZZIterate
    \/ ZZReturn

SpecZigZag ==
    ZZInit /\ [][ZZNext]_vars

----------------------------------------------------------------------------
(* Properties of find_setup                                                *)

\* find_setup has returned for the series in df
Scanned ==
    ret.pytype # "unbound"

\* ... and the series was long enough to be classified
Classified ==
    Scanned /\ Len(df) >= MinCandles

\* C1: find_setup tries Breakout, Pullback, Reversion in this order and
\* returns the first that fires: Breakout wins when the Breakout and Pullback
\* guards both hold, Reversion is returned only when neither holds, and the
\* result is one signal or none.
C1_PriorityOrder ==
    Classified =>
        LET ind == calculate_indicators(df)
            r   == ind[Len(ind) - 1]
            p   == ind[Len(ind) - 2]
            p2  == ind[Len(ind) - 3]
            b   == check_setup_2_breakout(r, p, p2) # NoSignal
            pb  == check_setup_1_pullback(r, p, p2) # NoSignal
        IN  /\ ret.pytype \in {"NoneType", "dict"}
            /\ (b /\ pb) => ret.setup = "Breakout"
            /\ b => ret.setup = "Breakout"
            /\ (~b /\ pb) => ret.setup = "Pullback"
            /\ ret.setup = "Reversion" => (~b /\ ~pb)

C1_Witness ==
    /\ Classified
    /\ ret.setup = "Breakout"
    /\ LET ind == calculate_indicators(df)
       IN  check_setup_1_pullback(ind[Len(ind) - 1], ind[Len(ind) - 2],
                                  ind[Len(ind) - 3]) # NoSignal

\* C2 (as claimed): whatever find_setup returns can be destructured into two
\* components, a signal-or-none and the indicator rows.
C2_ReturnsPair ==
    Scanned => ret.nitems = 2

\* C3 (as claimed): no series of fewer than 50 candles produces a signal.
C3_NoSignalBelow50 ==
    (Scanned /\ Len(df) < 50) => ret = PyNone

\* C3 (amended): no series of fewer than 30 candles, the empty one included,
\* produces a signal; find_setup returns None for it.
C3_NoSignalBelow30 ==
    (Scanned /\ Len(df) < 30) => ret = PyNone

\* a 29-candle series whose closed candles would classify as a setup
C3_Witness ==
    /\ Scanned
    /\ Len(df) = 29
    /\ ret = PyNone
    /\ LET ind == calculate_indicators(df)
       IN  check_setups(ind[28], ind[27], ind[26]).pytype = "dict"

\* C4: the signal candle is series[-2]; replacing the OHLCV values of the
\* last candle leaves the result of find_setup unchanged.
C4_FormingCandleIgnored ==
    [][ ( /\ Scanned
          /\ Len(df) > 0
          /\ Len(df') = Len(df)
          /\ SubSeq(df', 1, Len(df) - 1) = SubSeq(df, 1, Len(df) - 1)
          /\ df'[Len(df)].timestamp = df[Len(df)].timestamp )
        => /\ find_setup(df') = ret
           /\ ret.pytype = "dict" =>
                 /\ ret.time = df[Len(df) - 1].datetime
                 /\ ret.price = Int2F(df[Len(df) - 1].close) ]_vars

\* a signal was returned although the forming candle, taken as the signal
\* candle, would not give it
C4_Witness ==
    /\ Scanned
    /\ ret.pytype = "dict"
    /\ find_setup_on_forming(df) # ret

\* the Pullback guards as the specification words them
SpecPullbackLong(ind) ==
    LET n == Len(ind)
        r == ind[n - 1]
        p == ind[n - 2]
    IN  /\ FGT(Int2F(r.close), r.vwap) /\ FGT(r.ema9, r.ema21)
        /\ FLE(Int2F(25), p.rsi) /\ FLE(p.rsi, Int2F(40))
        /\ FGT(r.rsi, p.rsi)
        /\ \E k \in {n - 1, n - 2, n - 3} :
              FLE(FAbsDiffInt(ind[k].low, ind[k].ema21), FScale(ind[k].ema21, 3, 1000))

SpecPullbackShort(ind) ==
    LET n == Len(ind)
        r == ind[n - 1]
        p == ind[n - 2]
    IN  /\ FLT(Int2F(r.close), r.vwap) /\ FLT(r.ema9, r.ema21)
        /\ FLE(Int2F(60), p.rsi) /\ FLE(p.rsi, Int2F(75))
        /\ FLT(r.rsi, p.rsi)
        /\ \E k \in {n - 1, n - 2, n - 3} :
              FLE(FAbsDiffInt(ind[k].high, ind[k].ema21), FScale(ind[k].ema21, 3, 1000))

\* C5 (as claimed): with the trend aligned, the prior candle's RSI in the
\* pullback band, the signal candle's RSI moved toward neutral and a touch of
\* EMA_slow at offsets 2..4, and no Breakout, find_setup emits a Pullback
\* signal of that direction.
C5_TwoStagePullback ==
    Classified =>
        LET ind == calculate_indicators(df)
            n   == Len(ind)
            b   == check_setup_2_breakout(ind[n - 1], ind[n - 2], ind[n - 3]) # NoSignal
        IN  /\ (SpecPullbackLong(ind) /\ ~b) => ret.signal_type = "LONG (Pullback)"
            /\ (SpecPullbackShort(ind) /\ ~b) => ret.signal_type = "SHORT (Pullback)"

\* the Breakout conditions on raw values; incl: thresholds taken inclusively
BreakoutCond(r, p, long, incl) ==
    LET body  == Abs(r.close - r.open)
        pbody == Abs(p.close - p.open)
    IN  /\ IF long THEN FGT(Int2F(r.close), r.vwap) ELSE FLT(Int2F(r.close), r.vwap)
        /\ IF long THEN FGT(r.rsi, Int2F(60)) ELSE FLT(r.rsi, Int2F(40))
        /\ IF long THEN r.close > r.open ELSE r.close < r.open
        /\ IF incl THEN 10 * r.volume >= 12 * p.volume ELSE 10 * r.volume > 12 * p.volume
        /\ IF incl THEN 2 * body >= 3 * pbody ELSE 2 * body > 3 * pbody

FarBelowVwap(r) ==
    ~IsNaN(r.vwap) /\ 50 * (r.vwap[1] - r.close * r.vwap[2]) > r.vwap[1]

FarAboveVwap(r) ==
    ~IsNaN(r.vwap) /\ 50 * (r.close * r.vwap[2] - r.vwap[1]) > r.vwap[1]

\* C7: when neither Breakout nor Pullback fires, Reversion fires Long exactly
\* when close is more than 2% below VWAP, RSI < 30 and close > open, Short
\* exactly when more than 2% above, RSI > 70 and close < open; its stop-loss
\* is the signal candle's low (Long) or high (Short), its take-profit VWAP.
C7_Reversion ==
    Classified =>
        LET ind == calculate_indicators(df)
            r   == ind[Len(ind) - 1]
            p   == ind[Len(ind) - 2]
            p2  == ind[Len(ind) - 3]
            higher == \/ check_setup_2_breakout(r, p, p2) # NoSignal
                      \/ check_setup_1_pullback(r, p, p2) # NoSignal
            long  == FarBelowVwap(r) /\ FLT(r.rsi, Int2F(30)) /\ r.close > r.open
            short == FarAboveVwap(r) /\ FGT(r.rsi, Int2F(70)) /\ r.close < r.open
        IN  /\ ~higher =>
                /\ ret.signal_type = "LONG (Reversion)" <=> long
                /\ ret.signal_type = "SHORT (Reversion)" <=> short
            /\ ret.signal_type = "LONG (Reversion)" =>
                /\ ret.stop_loss = Int2F(r.low)
                /\ ret.take_profit = r.vwap
            /\ ret.signal_type = "SHORT (Reversion)" =>
                /\ ret.stop_loss = Int2F(r.high)
                /\ ret.take_profit = r.vwap

C7_Witness ==
    /\ Classified
    /\ ret.signal_type = "LONG (Reversion)"
    /\ ret.stop_loss # ret.price

\* C8 (as claimed): at the first candle of a UTC day the cumulative sums have
\* been reset, so its VWAP is its own typical price (high + low + close) / 3.
C8_VwapSessionAnchored ==
    Classified =>
        LET ind == calculate_indicators(df)
        IN  \A k \in 2..Len(ind) :
               ( /\ ind[k].datetime[1] # ind[k - 1].datetime[1]
                 /\ ind[k].volume > 0 )
               => ind[k].vwap = Frac(ind[k].high + ind[k].low + ind[k].close, 3)

----------------------------------------------------------------------------
(* Properties of calculate_zigzag (under SpecZigZag)                       *)

\* C9: in the returned pivot sequence consecutive pivots alternate between
\* peak and valley, for every adjacent pair except possibly the last one.
C9_Alternation ==
    zz_pc = "done" =>
        \A k \in 1..(Len(pivots) - 2) : pivots[k].type # pivots[k + 1].type

C9_Witness ==
    /\ zz_pc = "done"
    /\ Len(pivots) >= 4

\* the series rising 5%, falling 3%, rising 4%
RiseFallRise ==
    <<100000, 105000, 101850, 105924>>

\* C10: while the trend is Up a close at least deviation% below the anchor
\* records exactly one peak with the anchor's index and price, flips the trend
\* to Down and moves the anchor to the current candle (mirror image while
\* Down); the series rising 5%, falling 3%, rising 4% with deviation 1%
\* returns one peak, one valley and the trailing tentative pivot.
C10_ReversalStep ==
    [][ /\ ( /\ zz_pc = "loop" /\ i < Len(closes) /\ trend = 1
             /\ (closes[i + 1] - last_pivot_price) * 100
                    <= -(deviation_percent * last_pivot_price) )
           => /\ pivots' = Append(pivots, [index |-> last_pivot_idx,
                                           price |-> last_pivot_price,
                                           type |-> "peak",
                                           time |-> timestamp_at(last_pivot_idx)])
              /\ trend' = -1
              /\ last_pivot_idx' = i
              /\ last_pivot_price' = closes[i + 1]
        /\ ( /\ zz_pc = "loop" /\ i < Len(closes) /\ trend = -1
             /\ (closes[i + 1] - last_pivot_price) * 100
                    >= deviation_percent * last_pivot_price )
           => /\ pivots' = Append(pivots, [index |-> last_pivot_idx,
                                           price |-> last_pivot_price,
                                           type |-> "valley",
                                           time |-> timestamp_at(last_pivot_idx)])
              /\ trend' = 1
              /\ last_pivot_idx' = i
              /\ last_pivot_price' = closes[i + 1]
        /\ ( /\ zz_pc' = "done" /\ closes' = RiseFallRise /\ deviation_percent' = 1 )
           => /\ Len(pivots') = 3
              /\ pivots'[1].type = "peak" /\ pivots'[1].index = 1
              /\ pivots'[1].price = 105000
              /\ pivots'[2].type = "valley" /\ pivots'[2].index = 2
              /\ pivots'[2].price = 101850
              /\ pivots'[3].index = 3 ]_vars

C10_Witness ==
    /\ zz_pc = "done"
    /\ closes = RiseFallRise
    /\ deviation_percent = 1
    /\ Len(pivots) = 3

----------------------------------------------------------------------------
(* The RSI columns on growing series: calculate_indicators (period 9) and  *)
(* IndicatorEngine.calculate_rsi (period 14)                               *)

\* longest series the RSI columns are computed on
MaxRsiRows ==
    15

\* closes of the candles of these series
RsiCloses ==
    {100, 103}

OnlySeries ==
    /\ ret = Unbound
    /\ fetches = 0
    /\ calls = <<>>
    /\ ZZIdle
    /\ ScanIdle

RsiInit ==
    /\ df = <<>>
    /\ OnlySeries

\* the exchange delivers one more candle, of close c
RsiNextCandle(c) ==
    /\ Len(df) < MaxRsiRows
    /\ df' = Append(df, Row(NextOpenMs, OHLCV(c, c, c, c, 1000)))
    /\ UNCHANGED <<ret, fetches, calls, zzvars, scanvars>>

RsiNext ==
    \E c \in RsiCloses : RsiNextCandle(c)

SpecRsi ==
    RsiInit /\ [][RsiNext]_vars

\* the two RSI columns of the program at row k of series x
RsiColumns(x, k) ==
    { rsi_at(x, rsi_period, k), calculate_rsi(x, k) }

\* C11: at every row both RSI columns (period 9 of the classifier, period 14
\* of the indicator engine) are numbers, never NaN, with 0 <= RSI <= 100.
C11_RsiBounds ==
    \A k \in 1..Len(df) :
        \A r \in RsiColumns(df, k) :
            /\ r[2] > 0
            /\ r[1] >= 0
            /\ r[1] <= 100 * r[2]

\* a series with both extremes: a row of period-14 RSI 100 (complete window,
\* gains only) and a row of period-9 RSI 0 (complete window, losses only)
C11_Witness ==
    /\ \E k \in 1..Len(df) : calculate_rsi(df, k) = Int2F(100)
    /\ \E k \in 1..Len(df) : rsi_at(df, rsi_period, k) = Int2F(0)

\* C12 (as claimed): the RSI of each of the first `period` rows (row indices
\* 0 .. period-1, rows 1 .. period here) is exactly 50 whatever the closes.
C12_FirstPeriodRowsNeutral ==
    /\ \A k \in 1..Len(df) : k <= rsi_period => rsi_at(df, rsi_period, k) = Int2F(50)
    /\ \A k \in 1..Len(df) : k <= period_default => calculate_rsi(df, k) = Int2F(50)

\* no close-to-close diff of the trailing window of row k is negative
NoNegativeDiff(x, period, k) ==
    \A j \in (k - period + 1)..k : j > 1 => x[j].close >= x[j - 1].close

SomePositiveDiff(x, period, k) ==
    \E j \in (k - period + 1)..k : j > 1 /\ x[j].close > x[j - 1].close

\* C20 (as claimed): whenever the trailing window is complete and holds no
\* negative diff, the RSI of the row is 100.
C20_ZeroLossIs100 ==
    \A k \in 1..Len(df) :
        /\ (k >= rsi_period /\ NoNegativeDiff(df, rsi_period, k))
              => rsi_at(df, rsi_period, k) = Int2F(100)
        /\ (k >= period_default /\ NoNegativeDiff(df, period_default, k))
              => calculate_rsi(df, k) = Int2F(100)

\* C20 (amended): whenever the trailing window is complete and holds no
\* negative diff, the RSI of the row is 100 if the window holds a positive
\* diff and the neutral 50 if it holds none; it is never NaN.
C20_ZeroLossIs100Or50 ==
    \A k \in 1..Len(df) :
        /\ (k >= rsi_period /\ NoNegativeDiff(df, rsi_period, k))
              => rsi_at(df, rsi_period, k) =
                     IF SomePositiveDiff(df, rsi_period, k) THEN Int2F(100) ELSE Int2F(50)
        /\ (k >= period_default /\ NoNegativeDiff(df, period_default, k))
              => calculate_rsi(df, k) =
                     IF SomePositiveDiff(df, period_default, k) THEN Int2F(100) ELSE Int2F(50)

\* a complete window of each period with gains and no loss
C20_Witness ==
    /\ \E k \in rsi_period..Len(df) :
          NoNegativeDiff(df, rsi_period, k) /\ SomePositiveDiff(df, rsi_period, k)
    /\ \E k \in period_default..Len(df) :
          NoNegativeDiff(df, period_default, k) /\ SomePositiveDiff(df, period_default, k)

----------------------------------------------------------------------------
(* The EMA columns of calculate_indicators on growing series               *)

\* longest series the EMA columns are computed on
MaxEmaRows ==
    4

EmaCloses ==
    {97, 100, 103, 250}

EmaInit ==
    /\ df = <<>>
    /\ OnlySeries

EmaNextCandle(c) ==
    /\ Len(df) < MaxEmaRows
    /\ df' = Append(df, Row(NextOpenMs, OHLCV(c, c, c, c, 1000)))
    /\ UNCHANGED <<ret, fetches, calls, zzvars, scanvars>>

EmaNext ==
    \E c \in EmaCloses : EmaNextCandle(c)

SpecEma ==
    EmaInit /\ [][EmaNext]_vars

\* a + b on rationals
FAdd(a, b) ==
    IF IsNaN(a) \/ IsNaN(b) THEN NaN
    ELSE Frac(a[1] * b[2] + b[1] * a[2], a[2] * b[2])

\* a * close + (1 - a) * prev with a = 2 / (span + 1)
EmaStep(close, prev, span) ==
    FAdd(FScale(Int2F(close), 2, span + 1), FScale(prev, span - 1, span + 1))

\* C13: for every non-empty series and both spans (9 and 21) EMA[0] is
\* close[0], every later row is a*close[i] + (1-a)*EMA[i-1] with
\* a = 2/(span+1), and no row of either EMA is undefined.
C13_EmaRecurrence ==
    Len(df) > 0 =>
        LET ind == calculate_indicators(df)
        IN  /\ ind[1].ema9 = Int2F(df[1].close)
            /\ ind[1].ema21 = Int2F(df[1].close)
            /\ \A k \in 1..Len(df) : ~IsNaN(ind[k].ema9) /\ ~IsNaN(ind[k].ema21)
            /\ \A k \in 2..Len(df) :
                  /\ ind[k].ema9 = EmaStep(df[k].close, ind[k - 1].ema9, 9)
                  /\ ind[k].ema21 = EmaStep(df[k].close, ind[k - 1].ema21, 21)

\* a series of three different closes: the two EMAs have left the seed
C13_Witness ==
    /\ Len(df) >= 3
    /\ df[1].close # df[2].close
    /\ df[2].close # df[3].close
    /\ LET ind == calculate_indicators(df)
       IN  /\ ind[3].ema9 # ind[3].ema21
           /\ ind[3].ema9 # Int2F(df[1].close)

----------------------------------------------------------------------------
(* find_setup as a function of its argument: a caller that passes series   *)
(* of its own choice, one call after the other, to the same SetupFinder    *)

\* number of calls of a run
MaxCalls ==
    3

\* the frame whose k-th row is the candle cs[k], 5 minutes apart
Series(cs) ==
    [k \in 1..Len(cs) |-> Row(FirstOpenMs + (k - 1) * IntervalMs, cs[k])]

FlatRun(c, n) ==
    [k \in 1..n |-> c]

\* the frame x with the timestamp of row k set to ts
Retimed(x, k, ts) ==
    [x EXCEPT ![k] = Row(ts, OHLCV(x[k].open, x[k].high, x[k].low, x[k].close,
                                   x[k].volume))]

\* series of one repeated candle with open = close
ConstantSeries ==
    { Series(FlatRun(FlatCandle, 30)),
      Series(FlatRun(FlatCandle, 60)),
      Series(FlatRun(OHLCV(7, 7, 7, 7, 0), 31)) }

\* flat history, then a candle that breaks out upward on volume
BreakoutSeries ==
    Series(FlatRun(FlatCandle, 28) \o <<OHLCV(101, 104, 100, 104, 1300), FlatCandle>>)

\* flat history, a rise, then a red candle under EMA21 and VWAP
PullbackShortSeries ==
    Series(FlatRun(FlatCandle, 27)
           \o <<OHLCV(106, 106, 100, 104, 1000), OHLCV(100, 100, 97, 97, 1300),
                FlatCandle>>)

\* the same candles with timestamps out of order, and with a repeated one
UnorderedSeries ==
    { Retimed(Retimed(BreakoutSeries, 28, BreakoutSeries[29].timestamp),
              29, BreakoutSeries[28].timestamp),
      Retimed(PullbackShortSeries, 30, PullbackShortSeries[29].timestamp) }

CallSeries ==
    ConstantSeries \cup {BreakoutSeries, PullbackShortSeries} \cup UnorderedSeries

CallsInit ==
    /\ df \in CallSeries
    /\ ret = Unbound
    /\ fetches = 0
    /\ calls = <<>>
    /\ ZZIdle
    /\ ScanIdle

\* the caller takes up another series (or the same once more)
PassSeries(s) ==
    /\ ret.pytype # "unbound"
    /\ Len(calls) < MaxCalls
    /\ df' = s
    /\ ret' = Unbound
    /\ UNCHANGED <<fetches, calls, zzvars, scanvars>>

\* result = finder.find_setup(df); calls records argument and result
CallFindSetup ==
    /\ ret.pytype = "unbound"
    /\ ret' = find_setup(df)
    /\ df' = df_after_find_setup(df)
    /\ calls' = Append(calls, [arg |-> df, result |-> ret'])
    /\ UNCHANGED <<fetches, zzvars, scanvars>>

CallsNext ==
    \/ \E s \in CallSeries : PassSeries(s)
    \/ CallFindSetup

SpecCalls ==
    CallsInit /\ [][CallsNext]_vars

\* every candle has the same open = close price and the same volume
IsConstantSeries(x) ==
    /\ Len(x) > 0
    /\ \A k \in 1..Len(x) :
          /\ x[k].open = x[k].close
          /\ x[k].close = x[1].close
          /\ x[k].volume = x[1].volume

\* C14: on a series in which every candle has the same open = close price
\* and the same volume find_setup yields no signal, and the RSI of every row
\* is 50.
C14_ConstantSeriesNoSignal ==
    (ret.pytype # "unbound" /\ IsConstantSeries(df)) =>
        /\ ret = PyNone
        /\ LET ind == calculate_indicators(df)
           IN  \A k \in 1..Len(df) : ind[k].rsi = Int2F(50)

\* a constant series long enough to be classified has been through find_setup
C14_Witness ==
    /\ ret.pytype # "unbound"
    /\ IsConstantSeries(df)
    /\ Len(df) > MinCandles
    /\ calls[Len(calls)].arg = df

StrictlyIncreasingTimes(x) ==
    \A k \in 2..Len(x) : x[k - 1].timestamp < x[k].timestamp

\* C16 (as claimed): a series whose timestamps are not strictly increasing
\* makes find_setup fail with MalformedSeries, and nothing else is raised.
C16_MalformedSeriesRejected ==
    ret.pytype # "unbound" =>
        /\ ~StrictlyIncreasingTimes(df) => ret.pytype = "MalformedSeries"
        /\ StrictlyIncreasingTimes(df) => ret.pytype \in {"NoneType", "dict"}

----------------------------------------------------------------------------
(* Price levels of the signals find_setup returns (under Spec)             *)

\* the rational a equals close * p / 1000
IsPermille(a, close, p) ==
    ~IsNaN(a) /\ a[1] * 1000 = close * p * a[2]

\* C17: a Breakout signal carries the close and the time of the signal candle
\* series[-2], stop_loss = close x 0.995 and take_profit = close x 1.015 for
\* Long, stop_loss = close x 1.005 and take_profit = close x 0.985 for Short.
C17_BreakoutLevels ==
    (Classified /\ ret.setup = "Breakout") =>
        LET r == df[Len(df) - 1]
        IN  /\ ret.price = Int2F(r.close)
            /\ ret.time = r.datetime
            /\ ret.signal_type \in {"LONG (Breakout)", "SHORT (Breakout)"}
            /\ ret.signal_type = "LONG (Breakout)" =>
                  /\ IsPermille(ret.stop_loss, r.close, 995)
                  /\ IsPermille(ret.take_profit, r.close, 1015)
            /\ ret.signal_type = "SHORT (Breakout)" =>
                  /\ IsPermille(ret.stop_loss, r.close, 1005)
                  /\ IsPermille(ret.take_profit, r.close, 985)

\* a Short Breakout whose signal candle differs from the forming one
C17_Witness ==
    /\ Classified
    /\ ret.signal_type = "SHORT (Breakout)"
    /\ df[Len(df)].close # df[Len(df) - 1].close

\* whichever of EMA_slow and VWAP is nearer to the entry price
TighterLevel(r) ==
    IF FLE(FAbsDiffInt(r.close, r.ema21), FAbsDiffInt(r.close, r.vwap))
    THEN r.ema21 ELSE r.vwap

\* 3 * price - 2 * stop: the point at twice the stop distance on the far side
\* of the price
TwiceStopDistance(close, stop) ==
    IF IsNaN(stop) \/ 3 * close * stop[2] < 2 * stop[1] THEN NaN
    ELSE Frac(3 * close * stop[2] - 2 * stop[1], stop[2])

\* C18 (as claimed): a Pullback signal has its stop_loss 0.2% beyond the
\* tighter of EMA_slow and VWAP on the losing side (below it for Long, above
\* it for Short) and its take_profit on the profit side at twice the distance
\* between entry price and stop_loss.
C18_PullbackLevels ==
    (Classified /\ ret.setup = "Pullback") =>
        LET ind  == calculate_indicators(df)
            r    == ind[Len(ind) - 1]
            stop == IF ret.signal_type = "LONG (Pullback)"
                    THEN FScale(TighterLevel(r), 998, 1000)
                    ELSE FScale(TighterLevel(r), 1002, 1000)
        IN  /\ ret.stop_loss = stop
            /\ ret.take_profit = TwiceStopDistance(r.close, stop)

\* C19 (as claimed): for every signal find_setup emits, Long implies
\* stop_loss < price < take_profit and Short implies
\* take_profit < price < stop_loss.
C19_LevelsStraddlePrice ==
    (Classified /\ ret.pytype = "dict") =>
        IF IsLong(ret.signal_type)
        THEN FLT(ret.stop_loss, ret.price) /\ FLT(ret.price, ret.take_profit)
        ELSE FLT(ret.take_profit, ret.price) /\ FLT(ret.price, ret.stop_loss)

----------------------------------------------------------------------------
(* Further properties of calculate_zigzag (under SpecZigZag)               *)

\* C21: no look-ahead. For a close series S and an extension S' of it, every
\* pivot of the result on S except its final tentative one appears unchanged
\* (index, price, kind, time), in the same order, as a prefix of the result
\* on S'.
C21_NoLookAhead ==
    zz_pc = "done" =>
        \A n \in 1..(Len(closes) - 1) :
            LET short == calculate_zigzag(SubSeq(closes, 1, n), deviation_percent)
            IN  /\ Len(short) - 1 <= Len(pivots)
                /\ \A k \in 1..(Len(short) - 1) : pivots[k] = short[k]

\* the result on S has confirmed pivots, and its tentative pivot is revised
\* in the result on the extension S'
C21_Witness ==
    /\ zz_pc = "done"
    /\ Len(closes) >= 4
    /\ LET short == calculate_zigzag(SubSeq(closes, 1, Len(closes) - 1),
                                     deviation_percent)
       IN  /\ Len(short) >= 3
           /\ Len(pivots) >= Len(short)
           /\ pivots[Len(short)] # short[Len(short)]

IncreasingIndices(ps) ==
    \A k \in 1..(Len(ps) - 1) : ps[k].index < ps[k + 1].index

\* no close of cs is dev% or more away from cs[1]
NoMoveFromFirst(cs, dev) ==
    \A k \in 1..Len(cs) :
        /\ (cs[k] - cs[1]) * 100 < dev * cs[1]
        /\ (cs[k] - cs[1]) * 100 > -(dev * cs[1])

\* C22: after the pass over a non-empty series exactly one final pivot is
\* appended, at the current anchor (its index and price), a peak if the trend
\* is Up and a valley if it is Down; the result is never empty, its indices
\* increase strictly, and a series with no move of deviation% from close[0]
\* yields exactly one pivot, at index 0.
C22_FinalPivot ==
    [][ (zz_pc = "loop" /\ zz_pc' = "done") =>
           /\ Len(pivots') = Len(pivots) + 1
           /\ SubSeq(pivots', 1, Len(pivots)) = pivots
           /\ pivots'[Len(pivots')].index = last_pivot_idx
           /\ pivots'[Len(pivots')].price = last_pivot_price
           /\ trend = 1 => pivots'[Len(pivots')].type = "peak"
           /\ trend = -1 => pivots'[Len(pivots')].type = "valley"
           /\ Len(pivots') >= 1
           /\ IncreasingIndices(pivots')
           /\ NoMoveFromFirst(closes, deviation_percent) =>
                 /\ Len(pivots') = 1
                 /\ pivots'[1].index = 0
                 /\ pivots'[1].price = closes[1] ]_vars

\* a series that moves, though never by deviation%: one pivot, at index 0
C22_Witness ==
    /\ zz_pc = "done"
    /\ Len(closes) >= 3
    /\ closes[2] # closes[1]
    /\ closes[3] # closes[2]
    /\ NoMoveFromFirst(closes, deviation_percent)
    /\ Len(pivots) = 1

----------------------------------------------------------------------------
(* The guards of the three families, one direction at a time (under Spec)  *)

\* lines 80-91 (Long) and 98-105 (Short) of check_setup_1_pullback
PullbackGuard(row, long) ==
    IF long
    THEN /\ FGT(Int2F(row.close), row.vwap) /\ FGT(row.ema9, row.ema21)
         /\ row.close > row.open
         /\ FLE(Int2F(row.low), FScale(row.ema21, 1002, 1000))
         /\ FLE(Int2F(45), row.rsi) /\ FLE(row.rsi, Int2F(65))
    ELSE /\ FLT(Int2F(row.close), row.vwap) /\ FLT(row.ema9, row.ema21)
         /\ row.close < row.open
         /\ FGE(Int2F(row.high), FScale(row.ema21, 998, 1000))
         /\ FLE(Int2F(35), row.rsi) /\ FLE(row.rsi, Int2F(55))

\* lines 121-133 of check_setup_2_breakout
BreakoutGuard(row, prev_row, long) ==
    /\ 10 * row.volume > 12 * prev_row.volume
    /\ 2 * Abs(row.close - row.open) > 3 * Abs(prev_row.close - prev_row.open)
    /\ IF long
       THEN FGT(Int2F(row.close), row.vwap) /\ FGT(row.rsi, Int2F(60))
            /\ row.close > row.open
       ELSE FLT(Int2F(row.close), row.vwap) /\ FLT(row.rsi, Int2F(40))
            /\ row.close < row.open

\* lines 147-156 of check_setup_3_reversion
ReversionGuard(row, long) ==
    IF long
    THEN FarBelowVwap(row) /\ FLT(row.rsi, Int2F(30)) /\ row.close > row.open
    ELSE FarAboveVwap(row) /\ FGT(row.rsi, Int2F(70)) /\ row.close < row.open

\* C25: on no signal candle does a Reversion guard hold together with a
\* Breakout or Pullback guard, nor a Long together with a Short guard of one
\* family; the only overlap the priority order resolves is Breakout with
\* Pullback in the same direction.
C25_GuardsExclusive ==
    Classified =>
        LET ind == calculate_indicators(df)
            r   == ind[Len(ind) - 1]
            p   == ind[Len(ind) - 2]
            p2  == ind[Len(ind) - 3]
            b   == check_setup_2_breakout(r, p, p2)
            pb  == check_setup_1_pullback(r, p, p2)
            rv  == check_setup_3_reversion(r, p)
        IN  /\ rv # NoSignal => (b = NoSignal /\ pb = NoSignal)
            /\ (b # NoSignal /\ pb # NoSignal) => (IsLong(b) <=> IsLong(pb))
            /\ b # NoSignal <=> (BreakoutGuard(r, p, TRUE) \/ BreakoutGuard(r, p, FALSE))
            /\ pb # NoSignal <=> (PullbackGuard(r, TRUE) \/ PullbackGuard(r, FALSE))
            /\ rv # NoSignal <=> (ReversionGuard(r, TRUE) \/ ReversionGuard(r, FALSE))
            /\ ~(BreakoutGuard(r, p, TRUE) /\ BreakoutGuard(r, p, FALSE))
            /\ ~(PullbackGuard(r, TRUE) /\ PullbackGuard(r, FALSE))
            /\ ~(ReversionGuard(r, TRUE) /\ ReversionGuard(r, FALSE))
            /\ ~(BreakoutGuard(r, p, TRUE) /\ PullbackGuard(r, FALSE))
            /\ ~(BreakoutGuard(r, p, FALSE) /\ PullbackGuard(r, TRUE))

\* the one overlap: a Short Breakout candle that is a Short Pullback candle too
C25_Witness ==
    /\ Classified
    /\ LET ind == calculate_indicators(df)
           r   == ind[Len(ind) - 1]
           p   == ind[Len(ind) - 2]
       IN  BreakoutGuard(r, p, FALSE) /\ PullbackGuard(r, FALSE)

----------------------------------------------------------------------------
(* main.py: the background task scan_market and the /start handler         *)

TARGET_SYMBOLS ==
    <<"ETH", "BTC", "LTC", "SOL">>

\* chats that may send /start
ChatIds ==
    {1, 2}

\* what get_candles may return for a symbol: no data, a series without a
\* setup, series with one
ScanSeries ==
    { <<>>, Series(FlatRun(FlatCandle, 30)), BreakoutSeries, PullbackShortSeries }

\* what happened to one symbol of the current cycle
JournalEntry(symbol) ==
    [symbol |-> symbol, classified |-> FALSE, setup |-> "unbound",
     validated |-> FALSE, sent |-> {}, error |-> "none", done |-> FALSE]

\* the task is created by main() and runs up to its first await before any
\* update is polled: no chat is registered yet
ScanInit ==
    /\ df = <<>>
    /\ ret = Unbound
    /\ fetches = 0
    /\ calls = <<>>
    /\ ZZIdle
    /\ scan_pc = "fetch"
    /\ symbol_idx = 0
    /\ BROADCAST_CHAT_IDS = {}
    /\ journal = <<>>

\* the `for` loop moves on: the next symbol, or the sleep after the last one
NextPc(idx) ==
    IF idx + 1 < Len(TARGET_SYMBOLS) THEN "fetch" ELSE "sleep"

NextIdx(idx) ==
    IF idx + 1 < Len(TARGET_SYMBOLS) THEN idx + 1 ELSE 0

\* lines 149-151: df = get_candles(symbol, ...); if df.empty: continue
ScanGetCandles(s) ==
    /\ scan_pc = "fetch"
    /\ df' = s
    /\ ret' = Unbound
    /\ IF Len(s) = 0
       THEN /\ journal' = Append(journal,
                             [JournalEntry(TARGET_SYMBOLS[symbol_idx + 1])
                                 EXCEPT !.done = TRUE])
            /\ scan_pc' = NextPc(symbol_idx)
            /\ symbol_idx' = NextIdx(symbol_idx)
       ELSE /\ journal' = Append(journal, JournalEntry(TARGET_SYMBOLS[symbol_idx + 1]))
            /\ scan_pc' = "find_setup"
            /\ symbol_idx' = symbol_idx
    /\ UNCHANGED <<fetches, calls, zzvars, BROADCAST_CHAT_IDS>>

\* find_setup on each series the fetch can return, worked out once
find_setup_of ==
    [s \in ScanSeries |-> find_setup(s)]

\* line 154, the call: setup_finder.find_setup(df)
ScanFindSetup ==
    /\ scan_pc = "find_setup"
    /\ ret' = find_setup_of[df]
    /\ df' = df_after_find_setup(df)
    /\ journal' = [journal EXCEPT ![Len(journal)].classified = TRUE,
                                  ![Len(journal)].setup = ret'.pytype]
    /\ scan_pc' = "unpack"
    /\ UNCHANGED <<fetches, calls, zzvars, symbol_idx, BROADCAST_CHAT_IDS>>

\* mutant of ScanUnpack: the exception is not caught and ends the task
ScanUnpack_uncaught ==
    /\ scan_pc = "unpack"
    /\ IF ret.nitems = 2
       THEN /\ journal' = [journal EXCEPT ![Len(journal)].validated = TRUE,
                                          ![Len(journal)].sent = BROADCAST_CHAT_IDS,
                                          ![Len(journal)].done = TRUE]
            /\ scan_pc' = NextPc(symbol_idx)
            /\ symbol_idx' = NextIdx(symbol_idx)
       ELSE /\ journal' = [journal EXCEPT ![Len(journal)].error =
                                             IF ret.pytype = "NoneType"
                                             THEN "TypeError" ELSE "ValueError"]
            /\ scan_pc' = "crashed"
            /\ symbol_idx' = symbol_idx
    /\ UNCHANGED <<df, ret, fetches, calls, zzvars, BROADCAST_CHAT_IDS>>

\* line 154, the assignment `setup, valid_df = <result>`, and what follows it
\* in the try block. Unpacking None raises TypeError, unpacking a dict of six
\* keys ValueError; `except Exception` (lines 199-200) logs it and the loop
\* takes the next symbol. Lines 156-197 (validation by the AI, one message
\* per registered chat) run only after a result of two items.
ScanUnpack ==
    /\ scan_pc = "unpack"
    /\ IF ret.nitems = 2
       THEN journal' = [journal EXCEPT ![Len(journal)].validated = TRUE,
                                       ![Len(journal)].sent = BROADCAST_CHAT_IDS,
                                       ![Len(journal)].done = TRUE]
       ELSE journal' = [journal EXCEPT ![Len(journal)].error =
                                          IF ret.pytype = "NoneType"
                                          THEN "TypeError" ELSE "ValueError",
                                       ![Len(journal)].done = TRUE]
    /\ scan_pc' = NextPc(symbol_idx)
    /\ symbol_idx' = NextIdx(symbol_idx)
    /\ UNCHANGED <<df, ret, fetches, calls, zzvars, BROADCAST_CHAT_IDS>>

\* line 202: await asyncio.sleep(20) returns and `while True` starts over
ScanSleep ==
    /\ scan_pc = "sleep"
    /\ scan_pc' = "fetch"
    /\ symbol_idx' = 0
    /\ journal' = <<>>
    /\ UNCHANGED <<df, ret, fetches, calls, zzvars, BROADCAST_CHAT_IDS>>

\* cmd_start: a /start update is handled while scan_market is suspended in
\* its await (one event loop, no other suspension point is reached)
CmdStart(chat) ==
    /\ scan_pc = "sleep"
    /\ BROADCAST_CHAT_IDS' = BROADCAST_CHAT_IDS \cup {chat}
    /\ UNCHANGED <<df, ret, fetches, calls, zzvars, scan_pc, symbol_idx, journal>>

ScanStep ==
    \/ \E s \in ScanSeries : ScanGetCandles(s)
    \/ ScanFindSetup
    \/ ScanUnpack
    \/ ScanSleep

ScanNext ==
    \/ ScanStep
    \/ \E chat \in ChatIds : CmdStart(chat)

SpecScan ==
    ScanInit /\ [][ScanNext]_vars

\* the event loop keeps running the task: a step that stays possible is taken
SpecScanFair ==
    ScanInit /\ [][ScanNext]_vars /\ WF_vars(ScanStep)

\* C23 (as claimed): whenever find_setup detects a setup for a symbol during
\* a scan cycle, the AI validator is invoked for it and one message about it
\* is sent to every chat registered through /start.
C23_SetupIsBroadcast ==
    scan_pc \in {"fetch", "find_setup", "unpack"} =>
        \A k \in 1..Len(journal) :
            (journal[k].done /\ journal[k].setup = "dict") =>
                /\ journal[k].validated
                /\ journal[k].sent = BROADCAST_CHAT_IDS

\* the symbols fetched so far in the current cycle, in order
Fetched ==
    [k \in 1..Len(journal) |-> journal[k].symbol]

\* C24: every cycle fetches ETH, BTC, LTC, SOL once each, in that order; an
\* exception raised for one symbol is caught and the remaining symbols of the
\* cycle are processed; a symbol whose fetch returns an empty series is
\* skipped without classification; and this goes on in every cycle, forever.
C24_ScanLoopIsolation ==
    /\ [](/\ Len(journal) <= Len(TARGET_SYMBOLS)
          /\ Fetched = SubSeq(TARGET_SYMBOLS, 1, Len(journal))
          /\ scan_pc = "sleep" => Fetched = TARGET_SYMBOLS
          /\ scan_pc \in {"fetch", "find_setup", "unpack", "sleep"}
          /\ \A k \in 1..Len(journal) :
                /\ (journal[k].done /\ journal[k].setup = "unbound") =>
                      (~journal[k].classified /\ journal[k].error = "none")
                /\ k < Len(journal) => journal[k].done)
    /\ \A k \in 1..Len(TARGET_SYMBOLS) :
          []<>(/\ Len(journal) > 0
               /\ journal[Len(journal)].symbol = TARGET_SYMBOLS[k])

\* a cycle in which ETH raised ValueError, BTC came back empty, LTC raised
\* TypeError, and SOL was still fetched
C24_Witness ==
    /\ scan_pc = "sleep"
    /\ Len(journal) = 4
    /\ journal[1].error = "ValueError"
    /\ journal[2].done /\ ~journal[2].classified
    /\ journal[3].error = "TypeError"
    /\ journal[4].done
    /\ BROADCAST_CHAT_IDS # {}

====
